---- MODULE Spec2Model ----
(***************************************************************************)
(* Model of back-end/ocserv/modules/methods.py: pagination(request,        *)
(* queryset, serializer, context).  One call of the function is followed   *)
(* statement by statement; the request's raw query-string values and the   *)
(* size of the queryset are chosen in Init.                                *)
(*                                                                         *)
(* Python values are tagged records [t, i, s]: t is the type ("int",       *)
(* "str", "None", or "absent" for a key QueryDict does not hold), i the    *)
(* integer and s the string, a sequence of one-character strings.          *)
(*                                                                         *)
(* django.core.paginator.Paginator is a library the function calls; its    *)
(* behaviour (validate_number, num_pages, page) is modelled at the call    *)
(* sites.                                                                  *)
(***************************************************************************)
EXTENDS Integers, Sequences, FiniteSets, TLC

\* ---- bounds of the model ----
\* longest raw query-string value
MaxLen == 2
\* collections of 0..MaxCount records, besides the large ones below
MaxCount == 4

\* ---- program constants ----
DefaultPage == 1
DefaultItemPerPage == 100

\* characters a raw query-string value is made of: decimal digits, a sign,
\* a blank, and a character that is none of these
Alphabet == {"0", "1", "3", "-", " ", "a"}

\* collection sizes: small ones, one just above the default page size, and
\* two and a half default pages
CollectionSizes ==
    (0..MaxCount) \cup {DefaultItemPerPage + 1,
                        2 * DefaultItemPerPage + DefaultItemPerPage \div 2}

\* ---- Python values ----
PyIntV(n) == [t |-> "int", i |-> n, s |-> <<>>]
PyStrV(str) == [t |-> "str", i |-> 0, s |-> str]
PyNone == [t |-> "None", i |-> 0, s |-> <<>>]
Absent == [t |-> "absent", i |-> 0, s |-> <<>>]

RECURSIVE StringsUpTo(_)
StringsUpTo(n) ==
    IF n = 0 THEN {<<>>}
    ELSE LET shorter == StringsUpTo(n - 1)
         IN  shorter \cup {Append(str, c) : str \in {x \in shorter : Len(x) = n - 1},
                                             c \in Alphabet}

\* what request.GET can hold under a key: nothing, or a string
RawValues == {Absent} \cup {PyStrV(str) : str \in StringsUpTo(MaxLen)}

DigitChars == <<"0", "1", "2", "3", "4", "5", "6", "7", "8", "9">>

IsDigit(c) == \E d \in 1..10 : DigitChars[d] = c

DigitVal(c) == (CHOOSE d \in 1..10 : DigitChars[d] = c) - 1

RECURSIVE DigitsToNat(_)
DigitsToNat(str) ==
    IF Len(str) = 0 THEN 0
    ELSE 10 * DigitsToNat(SubSeq(str, 1, Len(str) - 1)) + DigitVal(str[Len(str)])

RECURSIVE NatToStr(_)
NatToStr(n) ==
    IF n < 10 THEN <<DigitChars[n + 1]>>
    ELSE Append(NatToStr(n \div 10), DigitChars[(n % 10) + 1])

\* str(x)
PyStr(v) ==
    CASE v.t = "str" -> v.s
      [] v.t = "int" -> IF v.i < 0 THEN <<"-">> \o NatToStr(-v.i) ELSE NatToStr(v.i)
      [] OTHER -> <<"N", "o", "n", "e">>

\* str.isnumeric(): at least one character, all of them numeric
IsNumeric(str) == Len(str) > 0 /\ \A k \in 1..Len(str) : IsDigit(str[k])

\* str.strip(): without the blanks at both ends
RECURSIVE Strip(_)
Strip(str) ==
    IF Len(str) = 0 THEN str
    ELSE IF str[1] = " " THEN Strip(Tail(str))
    ELSE IF str[Len(str)] = " " THEN Strip(SubSeq(str, 1, Len(str) - 1))
    ELSE str

\* int(x): [ok, val]; not ok is ValueError (TypeError for None).  A string is
\* read without the blanks around it, as an optional sign followed by at
\* least one digit.
PyInt(v) ==
    CASE v.t = "int" -> [ok |-> TRUE, val |-> v.i]
      [] v.t = "str" ->
            LET text == Strip(v.s)
                signed == Len(text) > 0 /\ text[1] = "-"
                body == IF signed THEN Tail(text) ELSE text
            IN  IF IsNumeric(body)
                THEN [ok |-> TRUE,
                      val |-> IF signed THEN 0 - DigitsToNat(body) ELSE DigitsToNat(body)]
                ELSE [ok |-> FALSE, val |-> 0]
      [] OTHER -> [ok |-> FALSE, val |-> 0]

\* request.GET.get(key, default)
GetOr(raw, default) == IF raw.t = "absent" THEN default ELSE raw

\* ---- the collection and the serializer ----
\* the i-th record of the queryset, in queryset order
Record(k) == 1000 + k

Queryset(n) == [k \in 1..n |-> Record(k)]

\* serializer(instance=obj, many=True).data: one mapping per record of obj
SerializerData(objs) == [k \in 1..Len(objs) |-> [id |-> objs[k]]]

\* ---- django.core.paginator.Paginator, as pagination uses it ----
\* Paginator(queryset, item_per_page).per_page: int(per_page)
PerPage(ipp) == PyInt(ipp).val

\* num_pages rounding down instead of up
NumPages_Floor(count, per_page) ==
    LET hits == IF count > 1 THEN count ELSE 1
    IN  hits \div per_page

\* Paginator.num_pages: ceil(max(1, count) / per_page); per_page # 0
NumPages(count, per_page) ==
    LET hits == IF count > 1 THEN count ELSE 1
    IN  (hits + per_page - 1) \div per_page

\* the slice taken as if pages were numbered from 0
PageSlice_ZeroIndexed(objs, number, per_page) ==
    LET bottom == number * per_page
        top == IF bottom + per_page >= Len(objs) THEN Len(objs) ELSE bottom + per_page
    IN  SubSeq(objs, bottom + 1, top)

\* the slice object_list[bottom:top] of page number
PageSlice(objs, number, per_page) ==
    LET bottom == (number - 1) * per_page
        top == IF bottom + per_page >= Len(objs) THEN Len(objs) ELSE bottom + per_page
    IN  SubSeq(objs, bottom + 1, top)

\* paginator.page(number).object_list, or the exception it raises:
\* validate_number raises EmptyPage below 1, then reads num_pages (which
\* divides by per_page), then raises EmptyPage above num_pages.
PaginatorPage(objs, per_page, number) ==
    IF number < 1 THEN [exc |-> "EmptyPage", object_list |-> <<>>]
    ELSE IF per_page = 0 THEN [exc |-> "ZeroDivisionError", object_list |-> <<>>]
    ELSE IF number > NumPages(Len(objs), per_page)
         THEN [exc |-> "EmptyPage", object_list |-> <<>>]
    ELSE [exc |-> "none", object_list |-> PageSlice(objs, number, per_page)]

\* ---- pieces of pagination ----
\* the page field reset to the default
PageField_Reset(p) == DefaultPage

\* int(page if str(page).isnumeric() else 1)
PageField(p) ==
    IF IsNumeric(PyStr(PyIntV(p))) THEN PyInt(PyIntV(p)).val ELSE DefaultPage

\* 100 if not str(item_per_page).isnumeric() else item_per_page
DefaultedItemPerPage(raw) ==
    IF ~IsNumeric(PyStr(raw)) THEN PyIntV(DefaultItemPerPage) ELSE raw

\* item_per_page left above the collection size
ClampedItemPerPage_NoClamp(ipp, count) == ipp

\* if query_count < int(item_per_page): item_per_page = query_count
ClampedItemPerPage(ipp, count) ==
    IF count < PyInt(ipp).val THEN PyIntV(count) ELSE ipp

\* if pages in [0, 1]: pages = 1
NormalizedPages(n) == IF n \in {0, 1} THEN 1 ELSE n

\* ---- what a call ends with ----
Pending ==
    [kind |-> "pending", keys |-> {}, result |-> <<>>, pages |-> 0, page |-> 0,
     total_count |-> 0, exc |-> "none"]

Raised(e) ==
    [kind |-> "raise", keys |-> {}, result |-> <<>>, pages |-> 0, page |-> 0,
     total_count |-> 0, exc |-> e]

\* {"result": [], "pages": 1, "page": ...}
EmptyMapping(p) ==
    [kind |-> "dict", keys |-> {"result", "pages", "page"}, result |-> <<>>,
     pages |-> 1, page |-> p, total_count |-> 0, exc |-> "none"]

\* {"result": ..., "pages": ..., "page": ..., "total_count": ...}
PageMapping(res, n, p, total) ==
    [kind |-> "dict", keys |-> {"result", "pages", "page", "total_count"},
     result |-> res, pages |-> n, page |-> p, total_count |-> total, exc |-> "none"]

\* queryset.none(), 0
NonePair ==
    [kind |-> "tuple", keys |-> {}, result |-> <<>>, pages |-> 0, page |-> 0,
     total_count |-> 0, exc |-> "none"]

VARIABLES
    request,        \* request.GET: [page, item_per_page], raw values
    query_count,    \* queryset.count()
    pc,             \* the line the call is at
    page,           \* local page (an int once line 10 has run)
    item_per_page,  \* local item_per_page (a Python value)
    obj,            \* local obj
    ret             \* what the call returned or raised

vars == <<request, query_count, pc, page, item_per_page, obj, ret>>

Init ==
    /\ request \in [page : RawValues, item_per_page : RawValues]
    /\ query_count \in CollectionSizes
    /\ pc = "line10"
    /\ page = 0
    /\ item_per_page = PyNone
    /\ obj = <<>>
    /\ ret = Pending

\* lines 9-10: page = int(request.GET.get("page", 1))
ParsePage ==
    /\ pc = "line10"
    /\ LET parsed == PyInt(GetOr(request.page, PyIntV(DefaultPage)))
       IN  IF parsed.ok
           THEN /\ page' = parsed.val
                /\ pc' = "line11"
                /\ ret' = ret
           ELSE /\ page' = page
                /\ pc' = "done"
                /\ ret' = Raised("ValueError")
    /\ UNCHANGED <<request, query_count, item_per_page, obj>>

\* lines 11-12: the empty collection
ReturnEmpty ==
    /\ pc = "line11"
    /\ query_count = 0
    /\ ret' = EmptyMapping(PageField(page))
    /\ pc' = "done"
    /\ UNCHANGED <<request, query_count, page, item_per_page, obj>>

\* lines 13-16: default and clamp item_per_page
NormalizeItemPerPage ==
    /\ pc = "line11"
    /\ query_count # 0
    /\ LET defaulted == DefaultedItemPerPage(GetOr(request.item_per_page, PyNone))
       IN  IF PyInt(defaulted).ok
           THEN /\ item_per_page' = ClampedItemPerPage(defaulted, query_count)
                /\ pc' = "line17"
                /\ ret' = ret
           ELSE /\ item_per_page' = defaulted
                /\ pc' = "done"
                /\ ret' = Raised("ValueError")
    /\ UNCHANGED <<request, query_count, page, obj>>

\* lines 17-19: paginator.page(page).object_list inside the try
TryPage ==
    /\ pc = "line17"
    /\ LET got == PaginatorPage(Queryset(query_count), PerPage(item_per_page), page)
       IN  /\ obj' = got.object_list
           /\ pc' = CASE got.exc = "none" -> "line24"
                      [] got.exc = "ZeroDivisionError" -> "line21"
                      [] OTHER -> "line23"
    /\ UNCHANGED <<request, query_count, page, item_per_page, ret>>

\* lines 20-21: except ZeroDivisionError
ExceptZeroDivision ==
    /\ pc = "line21"
    /\ ret' = NonePair
    /\ pc' = "done"
    /\ UNCHANGED <<request, query_count, page, item_per_page, obj>>

\* lines 22-23: except (EmptyPage, PageNotAnInteger, InvalidPage); what
\* paginator.page(1) raises here leaves the function
ExceptInvalidPage ==
    /\ pc = "line23"
    /\ LET got == PaginatorPage(Queryset(query_count), PerPage(item_per_page), 1)
       IN  IF got.exc = "none"
           THEN /\ obj' = got.object_list
                /\ pc' = "line24"
                /\ ret' = ret
           ELSE /\ obj' = obj
                /\ pc' = "done"
                /\ ret' = Raised(got.exc)
    /\ UNCHANGED <<request, query_count, page, item_per_page>>

\* lines 24-33: count the pages, serialize the slice, return the mapping
ReturnPage ==
    /\ pc = "line24"
    /\ ret' = PageMapping(SerializerData(obj),
                          NormalizedPages(NumPages(query_count, PerPage(item_per_page))),
                          PageField(page),
                          query_count)
    /\ pc' = "done"
    /\ UNCHANGED <<request, query_count, page, item_per_page, obj>>

Next ==
    \/ ParsePage
    \/ ReturnEmpty
    \/ NormalizeItemPerPage
    \/ TryPage
    \/ ExceptZeroDivision
    \/ ExceptInvalidPage
    \/ ReturnPage

Spec == Init /\ [][Next]_vars

TypeOK ==
    /\ pc \in {"line10", "line11", "line17", "line21", "line23", "line24", "done"}
    /\ ret.kind \in {"pending", "dict", "tuple", "raise"}
    /\ (pc = "done") <=> (ret.kind # "pending")

\* ---- terms the properties are stated in ----
Done == pc = "done"

ReturnedMapping == Done /\ ret.kind = "dict"

\* the raw page, read as line 10 reads it
RequestedPage == PyInt(GetOr(request.page, PyIntV(DefaultPage)))

\* the raw value is a string of decimal digits
IsDigitString(raw) == raw.t = "str" /\ IsNumeric(raw.s)

\* the raw value is a string of decimal digits that reads as a number >= 1
IsPositiveInteger(raw) == IsDigitString(raw) /\ DigitsToNat(raw.s) >= 1

Min(a, b) == IF a < b THEN a ELSE b

\* ceil(a / b) for b > 0: the least k with k * b >= a
CeilDiv(a, b) == CHOOSE k \in 0..a : k * b >= a /\ \A j \in 0..(k - 1) : j * b < a

\* the formatted records at 1-indexed positions lo..hi of the collection
FormattedRange(lo, hi) == [k \in 1..(hi - lo + 1) |-> [id |-> Record(lo + k - 1)]]

\* the page size the paginator was built with
EffectiveSize == PerPage(item_per_page)

\* C1: pagination never raises, whatever the raw page and item_per_page are.
C1_NeverRaises == ret.kind # "raise"

\* C2: whenever the raw page is not a string of digits, the call returns a
\* mapping whose page field is 1.
C2_NonDigitPageIsOne ==
    (Done /\ ~IsDigitString(request.page)) => (ret.kind = "dict" /\ ret.page = 1)

\* C3: every call that returns gives the empty mapping or the non-empty
\* mapping, and the ZeroDivisionError handler is never entered.
C3_OnlyTwoShapes ==
    /\ pc # "line21"
    /\ ret.kind # "tuple"
    /\ ret.kind = "dict" =>
          ret.keys \in {{"result", "pages", "page"},
                        {"result", "pages", "page", "total_count"}}

\* C4: a raw page or item_per_page that is not a positive integer is replaced
\* by its default (1, 100), so the reported page and the page size used for
\* slicing are both at least 1.
C4_PositiveAfterNormalization ==
    /\ ReturnedMapping =>
          /\ ret.page >= 1
          /\ ~IsPositiveInteger(request.page) => ret.page = DefaultPage
    /\ pc \in {"line17", "line21", "line23", "line24"} =>
          /\ EffectiveSize >= 1
          /\ ~IsPositiveInteger(request.item_per_page) =>
                EffectiveSize = Min(DefaultItemPerPage, query_count)

\* C5: on a collection of size 0 the call returns exactly
\* {result: [], pages: 1, page: normalized page}, without total_count,
\* whatever page and item_per_page were requested.
C5_EmptyCollection ==
    (Done /\ query_count = 0) =>
        /\ ret.kind = "dict"
        /\ ret.keys = {"result", "pages", "page"}
        /\ ret.result = <<>>
        /\ ret.pages = 1
        /\ ret.page = (IF IsDigitString(request.page)
                       THEN DigitsToNat(request.page.s) ELSE DefaultPage)

C7_PagesIsCeiling ==
    ReturnedMapping =>
        /\ ret.pages >= 1
        /\ ret.pages = (IF query_count = 0 THEN 1
                        ELSE LET c == CeilDiv(query_count, EffectiveSize)
                             IN  IF c = 0 THEN 1 ELSE c)

\* C7 happens: a collection that does not divide evenly into its pages
C7_Witness ==
    /\ ReturnedMapping
    /\ ret.pages = 2
    /\ query_count = 4
    /\ EffectiveSize = 3

\* C8: for N > 0 records, page size s and a requested page p in 1..pages,
\* the result is the formatted records at positions (p-1)*s+1 .. min(p*s, N)
\* in collection order; a page before the last holds s records, the last
\* holds N - (pages-1)*s, total_count is N (250 records in pages of 100:
\* 3 pages, the third of 50).
C8_PageHoldsItsRecords ==
    (ReturnedMapping /\ query_count > 0 /\ page >= 1 /\ page <= ret.pages) =>
        LET s == EffectiveSize
            N == query_count
        IN  /\ ret.result = FormattedRange((page - 1) * s + 1, Min(page * s, N))
            /\ Len(ret.result) = (IF page < ret.pages THEN s
                                  ELSE N - (ret.pages - 1) * s)
            /\ ret.total_count = N
            /\ "total_count" \in ret.keys
            /\ (N = 250 /\ s = 100) =>
                  /\ ret.pages = 3
                  /\ page = 1 => Len(ret.result) = 100
                  /\ page = 3 => Len(ret.result) = 50

\* C8 happens: page 3 of 250 records in pages of 100
C8_Witness ==
    /\ ReturnedMapping
    /\ query_count = 250
    /\ page = 3
    /\ ret.pages = 3
    /\ Len(ret.result) = 50
    /\ ret.result[1] = [id |-> Record(201)]

\* C9: on a non-empty collection a requested page that is not an integer,
\* is below 1 or is above pages does not fail the call: the result holds
\* the records of page 1 for the same item_per_page.
C9_InvalidPageFallsBack ==
    (Done /\ query_count > 0
          /\ (\/ ~RequestedPage.ok
              \/ RequestedPage.val < 1
              \/ (ret.kind = "dict" /\ RequestedPage.val > ret.pages))) =>
        /\ ret.kind = "dict"
        /\ ret.result = FormattedRange(1, Min(EffectiveSize, query_count))

\* C10: when the requested page is a positive integer above pages on a
\* non-empty collection, the page field is still the requested number and
\* the result holds page 1's records.
C10_PageFieldKeepsRequest ==
    (ReturnedMapping /\ query_count > 0 /\ RequestedPage.ok
          /\ RequestedPage.val > ret.pages) =>
        /\ ret.page = RequestedPage.val
        /\ ret.page > ret.pages
        /\ ret.result = FormattedRange(1, Min(EffectiveSize, query_count))

\* C10 happens: page 13 of a collection of two pages
C10_Witness ==
    /\ ReturnedMapping
    /\ query_count = 4
    /\ RequestedPage.val = 13
    /\ ret.pages = 2
    /\ ret.page = 13
    /\ Len(ret.result) = 3

====
